---- MODULE Spec2Model ----
(***************************************************************************)
(* Model of templates/script.js: the chat form's submit handler, the       *)
(* refresh button's click handler and the helpers they call.  JavaScript   *)
(* runs each handler to its next await as one uninterrupted step, so each  *)
(* action below is one such run: the handler up to its first await, or a   *)
(* resumption after an await up to the end of the handler.                 *)
(*                                                                         *)
(* A string is a sequence of characters; a literal of the source is a      *)
(* one-element sequence holding the whole literal.                         *)
(***************************************************************************)
EXTENDS Integers, Sequences, FiniteSets, TLC

\* ---------------------------------------------------------------- bounds
MaxLen == 3          \* longest text the user types into the field
MaxSubmits == 2      \* non-empty submissions per behaviour
MaxTimers == 2       \* refresh cycles whose toast timer may be pending at once

\* ------------------------------------------------------ program constants
ToastTimeout == 3000
TickMs == ToastTimeout \div 2

Chars == {"a", " "}
Whitespace == {" "}

SorryText == <<"Sorry, I encountered an error. Please try again.">>
UnableText == <<"Unable to connect to the server.">>
RefreshedText == <<"Data refreshed!">>
FailedText == <<"Failed to refresh data.">>
ChatUrl == "/api/chat"
RefreshUrl == "/api/refresh-data"
TypingId == "typing-indicator"

\* ------------------------------------------------------------- strings
SeqsUpTo(S, n) == UNION {[1..k -> S] : k \in 0..n}

Inputs == SeqsUpTo(Chars, MaxLen)
ShortInputs == {s \in Inputs : Len(s) <= 1}

\* What the server may put in the field a handler reads: absent, or a string.
ServerStrings == {<<>>, <<"a">>}
Fields == {[present |-> FALSE, val |-> <<>>]} \cup
          {[present |-> TRUE, val |-> s] : s \in ServerStrings}
\* Bodies response.json() resolves with: a JSON object, or JSON null.
Bodies == {[kind |-> "object", field |-> f] : f \in Fields} \cup
          {[kind |-> "null", field |-> [present |-> FALSE, val |-> <<>>]]}

RECURSIVE trimStart(_)
trimStart(s) ==
  IF s = <<>> THEN s
  ELSE IF Head(s) \in Whitespace THEN trimStart(Tail(s)) ELSE s

RECURSIVE trimEnd(_)
trimEnd(s) ==
  IF s = <<>> THEN s
  ELSE IF s[Len(s)] \in Whitespace THEN trimEnd(SubSeq(s, 1, Len(s) - 1)) ELSE s

\* The handler reading userInput.value without trimming it.
trim_identity(s) == s

trim(s) == trimEnd(trimStart(s))

\* JavaScript truthiness of an object's string field: undefined and "" are falsy.
Truthy(f) == f.present /\ f.val /= <<>>

VARIABLES
  value,          \* userInput.value
  disabled,       \* userInput.disabled
  focus,          \* the element holding keyboard focus
  children,       \* chatMessages' child elements, in document order
  chatFetch,      \* submit handlers suspended at await fetch(...)
  chatJson,       \* submit handlers suspended at await response.json()
  refreshDisabled,\* refreshBtn.disabled
  spinning,       \* refreshBtn.classList contains 'fa-spin'
  refreshFetch,   \* click handlers suspended at await fetch(...)
  refreshJson,    \* click handlers suspended at await response.json()
  toastText,      \* toast.textContent
  toastShow,      \* toast.classList contains 'show'
  timers,         \* pending setTimeout callbacks: ms left, oldest first
  sinceShow,      \* ms since the last showToast call, capped at ToastTimeout
  event,          \* which handler ran in the last step
  ops             \* what that run did, in program order

vars == <<value, disabled, focus, children, chatFetch, chatJson,
          refreshDisabled, spinning, refreshFetch, refreshJson,
          toastText, toastShow, timers, sinceShow, event, ops>>

chatVars == <<value, disabled, focus, children, chatFetch, chatJson>>
refreshVars == <<refreshDisabled, spinning, refreshFetch, refreshJson>>
toastVars == <<toastText, toastShow, timers, sinceShow>>

Op(name, text, tag) == [op |-> name, text |-> text, tag |-> tag]

\* ------------------------------------------------------------- helpers
Element(id, sender, text) == [id |-> id, sender |-> sender, text |-> text]

addMessage(ch, text, sender) == Append(ch, Element("", sender, text))

\* A showTypingIndicator that appends nothing.
showTypingIndicator_none(ch) == ch

showTypingIndicator(ch) == Append(ch, Element(TypingId, "ai", <<>>))

IsIndicator(e) == e.id = TypingId

\* document.getElementById returns the first match in document order.
FirstIndicator(ch) ==
  IF \E i \in 1..Len(ch) : IsIndicator(ch[i])
  THEN CHOOSE i \in 1..Len(ch) :
         IsIndicator(ch[i]) /\ \A j \in 1..(i - 1) : ~IsIndicator(ch[j])
  ELSE 0

\* A removal that finds no element.
removeTypingIndicator_noop(ch) == ch

\* A removal of the container's last child, whatever it is.
removeTypingIndicator_last(ch) ==
  IF ch = <<>> THEN ch ELSE SubSeq(ch, 1, Len(ch) - 1)

removeTypingIndicator(ch) ==
  LET i == FirstIndicator(ch) IN
  IF i = 0 THEN ch
  ELSE SubSeq(ch, 1, i - 1) \o SubSeq(ch, i + 1, Len(ch))

Indicators(ch) == Cardinality({i \in 1..Len(ch) : IsIndicator(ch[i])})
Messages(ch) == SelectSeq(ch, LAMBDA e : ~IsIndicator(e))
UserMessages(ch) == SelectSeq(ch, LAMBDA e : ~IsIndicator(e) /\ e.sender = "user")

\* A showToast that starts no dismissal timer.
showToast_noTimer(message) ==
  /\ toastText' = message
  /\ toastShow' = TRUE
  /\ timers' = timers
  /\ sinceShow' = 0

showToast(message) ==
  /\ toastText' = message
  /\ toastShow' = TRUE
  /\ timers' = Append(timers, ToastTimeout)
  /\ sinceShow' = 0

\* Disabling the focused input may or may not move focus off it.
FocusAfterDisable == IF focus = "input" THEN {"input", "body"} ELSE {focus}

Init ==
  /\ value = <<>>
  /\ disabled = FALSE
  /\ focus = "body"
  /\ children = <<>>
  /\ chatFetch = 0
  /\ chatJson = 0
  /\ refreshDisabled = FALSE
  /\ spinning = FALSE
  /\ refreshFetch = 0
  /\ refreshJson = 0
  /\ toastText = <<>>
  /\ toastShow = FALSE
  /\ timers = <<>>
  /\ sinceShow = ToastTimeout
  /\ event = "load"
  /\ ops = <<>>

\* ------------------------------------------------------------ the user
\* The user edits the field, typing a text of S; a disabled field cannot be
\* edited.  The user has at most MaxSubmits texts to send.
UserTypes(S) ==
  /\ ~disabled
  /\ Len(UserMessages(children)) < MaxSubmits
  /\ \E s \in S : value' = s
  /\ focus' = "input"
  /\ event' = "input"
  /\ ops' = <<>>
  /\ UNCHANGED <<disabled, children, chatFetch, chatJson>>
  /\ UNCHANGED refreshVars
  /\ UNCHANGED toastVars

UserType == UserTypes(Inputs)

\* The same with texts of at most one character, for the specification that
\* interleaves the two handlers, where the length of a text plays no part.
UserTypeShort == UserTypes(ShortInputs)

\* The user moves focus off the field.
UserBlur ==
  /\ focus = "input"
  /\ focus' = "body"
  /\ event' = "blur"
  /\ ops' = <<>>
  /\ UNCHANGED <<value, disabled, children, chatFetch, chatJson>>
  /\ UNCHANGED refreshVars
  /\ UNCHANGED toastVars

\* ------------------------------------------- chatForm submit handler
SubmitIgnored ==
  /\ trim(value) = <<>>
  /\ event' = "submit"
  /\ ops' = <<>>
  /\ UNCHANGED chatVars
  /\ UNCHANGED refreshVars
  /\ UNCHANGED toastVars

\* The handler showing the raw field value instead of the trimmed query.
SubmitSend_rawMessage ==
  LET query == trim(value) IN
  /\ query /= <<>>
  /\ Len(UserMessages(children)) < MaxSubmits
  /\ children' = showTypingIndicator(addMessage(children, value, "user"))
  /\ value' = <<>>
  /\ disabled' = TRUE
  /\ focus' \in FocusAfterDisable
  /\ chatFetch' = chatFetch + 1
  /\ event' = "submit"
  /\ ops' = << Op("addMessage", value, "user"),
               Op("value", <<>>, ""),
               Op("disabled", <<>>, "true"),
               Op("showTypingIndicator", <<>>, ""),
               Op("fetch", query, ChatUrl) >>
  /\ UNCHANGED chatJson
  /\ UNCHANGED refreshVars
  /\ UNCHANGED toastVars

\* The handler clearing the field without disabling it.
SubmitSend_noDisable ==
  LET query == trim(value) IN
  /\ query /= <<>>
  /\ Len(UserMessages(children)) < MaxSubmits
  /\ children' = showTypingIndicator(addMessage(children, query, "user"))
  /\ value' = <<>>
  /\ disabled' = disabled
  /\ focus' = focus
  /\ chatFetch' = chatFetch + 1
  /\ event' = "submit"
  /\ ops' = << Op("addMessage", query, "user"),
               Op("value", <<>>, ""),
               Op("showTypingIndicator", <<>>, ""),
               Op("fetch", query, ChatUrl) >>
  /\ UNCHANGED chatJson
  /\ UNCHANGED refreshVars
  /\ UNCHANGED toastVars

SubmitSend ==
  LET query == trim(value) IN
  /\ query /= <<>>
  /\ Len(UserMessages(children)) < MaxSubmits
  /\ children' = showTypingIndicator(addMessage(children, query, "user"))
  /\ value' = <<>>
  /\ disabled' = TRUE
  /\ focus' \in FocusAfterDisable
  /\ chatFetch' = chatFetch + 1
  /\ event' = "submit"
  /\ ops' = << Op("addMessage", query, "user"),
               Op("value", <<>>, ""),
               Op("disabled", <<>>, "true"),
               Op("showTypingIndicator", <<>>, ""),
               Op("fetch", query, ChatUrl) >>
  /\ UNCHANGED chatJson
  /\ UNCHANGED refreshVars
  /\ UNCHANGED toastVars

Submit == SubmitIgnored \/ SubmitSend

\* A finally block that forgets to re-enable the field.
ChatFinally_stayDisabled ==
  /\ disabled' = disabled
  /\ focus' = focus

\* A finally block that re-enables the field without focusing it.
ChatFinally_noFocus ==
  /\ disabled' = FALSE
  /\ focus' = focus

\* The finally block of the submit handler.
ChatFinally ==
  /\ disabled' = FALSE
  /\ focus' = "input"

ChatFinallyOps == << Op("disabled", <<>>, "false"), Op("focus", <<>>, "input") >>

RemoveOp(ch) ==
  Op("removeTypingIndicator", <<>>, IF FirstIndicator(ch) = 0 THEN "absent" ELSE "removed")

\* A catch block that appends the message before removing the indicator.
ChatCatch_messageFirst(ch, pre) ==
  /\ children' = removeTypingIndicator(addMessage(ch, UnableText, "ai"))
  /\ ops' = pre \o << Op("addMessage", UnableText, "ai"),
                      RemoveOp(ch),
                      Op("console.error", <<>>, "") >>
            \o ChatFinallyOps
  /\ ChatFinally

\* A catch block that leaves the typing indicator in place.
ChatCatch_noRemove(ch, pre) ==
  /\ children' = addMessage(ch, UnableText, "ai")
  /\ ops' = pre \o << Op("addMessage", UnableText, "ai"),
                      Op("console.error", <<>>, "") >>
            \o ChatFinallyOps
  /\ ChatFinally

\* A catch block that reports the soft-failure text and logs nothing.
ChatCatch_silent(ch, pre) ==
  /\ children' = addMessage(removeTypingIndicator(ch), SorryText, "ai")
  /\ ops' = pre \o << RemoveOp(ch), Op("addMessage", SorryText, "ai") >>
            \o ChatFinallyOps
  /\ ChatFinally

\* A catch block that only logs the failure and shows no message.
ChatCatch_noMessage(ch, pre) ==
  /\ children' = removeTypingIndicator(ch)
  /\ ops' = pre \o << RemoveOp(ch), Op("console.error", <<>>, "") >>
            \o ChatFinallyOps
  /\ ChatFinally

\* The catch block of the submit handler, entered with children = ch.
ChatCatch(ch, pre) ==
  /\ children' = addMessage(removeTypingIndicator(ch), UnableText, "ai")
  /\ ops' = pre \o << RemoveOp(ch),
                      Op("addMessage", UnableText, "ai"),
                      Op("console.error", <<>>, "") >>
            \o ChatFinallyOps
  /\ ChatFinally

\* fetch('/api/chat') resolves: the handler goes on to await response.json().
ChatFetchResolve ==
  /\ chatFetch > 0
  /\ chatFetch' = chatFetch - 1
  /\ chatJson' = chatJson + 1
  /\ event' = "chatFetchResolve"
  /\ ops' = <<>>
  /\ UNCHANGED <<value, disabled, focus, children>>
  /\ UNCHANGED refreshVars
  /\ UNCHANGED toastVars

\* A handler that answers a rejected fetch by sending the query again.
ChatFetchReject_retry ==
  /\ chatFetch > 0
  /\ event' = "chatFetchReject"
  /\ ops' = << Op("fetch", UserMessages(children)[Len(UserMessages(children))].text, ChatUrl) >>
  /\ UNCHANGED chatVars
  /\ UNCHANGED refreshVars
  /\ UNCHANGED toastVars

\* fetch('/api/chat') rejects: catch, then finally.
ChatFetchReject ==
  /\ chatFetch > 0
  /\ chatFetch' = chatFetch - 1
  /\ ChatCatch(children, <<>>)
  /\ event' = "chatFetchReject"
  /\ UNCHANGED <<value, chatJson>>
  /\ UNCHANGED refreshVars
  /\ UNCHANGED toastVars

\* response.json() rejects (the body is not JSON): catch, then finally.
ChatJsonReject ==
  /\ chatJson > 0
  /\ chatJson' = chatJson - 1
  /\ ChatCatch(children, <<>>)
  /\ event' = "chatJsonReject"
  /\ UNCHANGED <<value, chatFetch>>
  /\ UNCHANGED refreshVars
  /\ UNCHANGED toastVars

\* A reply without the fallback: an absent field reads as the empty text.
ReplyText_noFallback(data) == data.field.val

\* The text of the ai message for a JSON object: data.response, else the fallback.
ReplyText(data) == IF Truthy(data.field) THEN data.field.val ELSE SorryText

\* response.json() resolves with data.  Reading data.response of null throws
\* after the indicator was removed, which enters the catch block.
ChatJsonResolve(data) ==
  /\ chatJson > 0
  /\ chatJson' = chatJson - 1
  /\ IF data.kind = "null"
     THEN ChatCatch(removeTypingIndicator(children), << RemoveOp(children) >>)
     ELSE /\ children' = addMessage(removeTypingIndicator(children), ReplyText(data), "ai")
          /\ ops' = << RemoveOp(children), Op("addMessage", ReplyText(data), "ai") >>
                    \o ChatFinallyOps
          /\ ChatFinally
  /\ event' = IF data.kind = "null" THEN "chatJsonNull" ELSE "chatJsonResolve"
  /\ UNCHANGED <<value, chatFetch>>
  /\ UNCHANGED refreshVars
  /\ UNCHANGED toastVars

ChatHandlers ==
  \/ Submit
  \/ ChatFetchResolve
  \/ ChatFetchReject
  \/ ChatJsonReject
  \/ \E data \in Bodies : ChatJsonResolve(data)

\* ---------------------------------------- refreshBtn click handler
\* A disabled button dispatches no click event.
RefreshClick ==
  /\ ~refreshDisabled
  /\ Len(timers) + refreshFetch + refreshJson < MaxTimers
  /\ refreshDisabled' = TRUE
  /\ spinning' = TRUE
  /\ refreshFetch' = refreshFetch + 1
  /\ event' = "click"
  /\ ops' = << Op("refreshDisabled", <<>>, "true"),
               Op("fa-spin", <<>>, "add"),
               Op("fetch", <<>>, RefreshUrl) >>
  /\ UNCHANGED refreshJson
  /\ UNCHANGED chatVars
  /\ UNCHANGED toastVars

\* A finally block that re-enables the button but leaves it spinning.
RefreshFinally_keepSpin ==
  /\ refreshDisabled' = FALSE
  /\ spinning' = spinning

\* The finally block of the click handler.
RefreshFinally ==
  /\ refreshDisabled' = FALSE
  /\ spinning' = FALSE

RefreshFinallyOps == << Op("refreshDisabled", <<>>, "false"), Op("fa-spin", <<>>, "remove") >>

\* The catch block of the click handler.
RefreshCatch ==
  /\ showToast(FailedText)
  /\ ops' = << Op("showToast", FailedText, "") >> \o RefreshFinallyOps
  /\ RefreshFinally

\* fetch('/api/refresh-data') resolves: the handler goes on to await response.json().
RefreshFetchResolve ==
  /\ refreshFetch > 0
  /\ refreshFetch' = refreshFetch - 1
  /\ refreshJson' = refreshJson + 1
  /\ event' = "refreshFetchResolve"
  /\ ops' = <<>>
  /\ UNCHANGED <<refreshDisabled, spinning>>
  /\ UNCHANGED chatVars
  /\ UNCHANGED toastVars

\* A click handler that reports a failed request in the message log as well.
RefreshFetchReject_chatMessage ==
  /\ refreshFetch > 0
  /\ refreshFetch' = refreshFetch - 1
  /\ RefreshCatch
  /\ children' = addMessage(children, FailedText, "ai")
  /\ event' = "refreshFetchReject"
  /\ UNCHANGED <<refreshJson, value, disabled, focus, chatFetch, chatJson>>

\* fetch('/api/refresh-data') rejects: catch, then finally.
RefreshFetchReject ==
  /\ refreshFetch > 0
  /\ refreshFetch' = refreshFetch - 1
  /\ RefreshCatch
  /\ event' = "refreshFetchReject"
  /\ UNCHANGED refreshJson
  /\ UNCHANGED chatVars

\* response.json() rejects (the body is not JSON): catch, then finally.
RefreshJsonReject ==
  /\ refreshJson > 0
  /\ refreshJson' = refreshJson - 1
  /\ RefreshCatch
  /\ event' = "refreshJsonReject"
  /\ UNCHANGED refreshFetch
  /\ UNCHANGED chatVars

\* The fallback applied only to an absent message (?? in place of ||).
RefreshText_nullish(data) == IF data.field.present THEN data.field.val ELSE RefreshedText

\* The toast text for a JSON object: data.message || "Data refreshed!".
RefreshText(data) == IF Truthy(data.field) THEN data.field.val ELSE RefreshedText

\* response.json() resolves with data.  Reading data.message of null throws,
\* which enters the catch block.
RefreshJsonResolve(data) ==
  /\ refreshJson > 0
  /\ refreshJson' = refreshJson - 1
  /\ IF data.kind = "null"
     THEN RefreshCatch
     ELSE /\ showToast(RefreshText(data))
          /\ ops' = << Op("showToast", RefreshText(data), "") >> \o RefreshFinallyOps
          /\ RefreshFinally
  /\ event' = IF data.kind = "null" THEN "refreshJsonNull" ELSE "refreshJsonResolve"
  /\ UNCHANGED refreshFetch
  /\ UNCHANGED chatVars

\* ------------------------------------------------------- time and timers
\* The callback given to setTimeout in showToast runs when its delay is over.
ToastTimer ==
  /\ timers /= <<>>
  /\ Head(timers) = 0
  /\ timers' = Tail(timers)
  /\ toastShow' = FALSE
  /\ event' = "timer"
  /\ ops' = << Op("show", <<>>, "remove") >>
  /\ UNCHANGED <<toastText, sinceShow>>
  /\ UNCHANGED chatVars
  /\ UNCHANGED refreshVars

Min(a, b) == IF a < b THEN a ELSE b

\* TickMs of time pass; a due timer runs before time passes further.
Tick ==
  /\ timers /= <<>> \/ sinceShow < ToastTimeout
  /\ \A i \in 1..Len(timers) : timers[i] > 0
  /\ timers' = [i \in 1..Len(timers) |-> timers[i] - TickMs]
  /\ sinceShow' = Min(sinceShow + TickMs, ToastTimeout)
  /\ event' = "tick"
  /\ ops' = <<>>
  /\ UNCHANGED <<toastText, toastShow>>
  /\ UNCHANGED chatVars
  /\ UNCHANGED refreshVars

RefreshNext ==
  \/ RefreshClick
  \/ RefreshFetchResolve
  \/ RefreshFetchReject
  \/ RefreshJsonReject
  \/ \E data \in Bodies : RefreshJsonResolve(data)
  \/ ToastTimer
  \/ Tick

\* The chat form alone, with every text of Inputs.
ChatNext == UserType \/ UserBlur \/ ChatHandlers

\* The whole page: both handlers and the toast timer interleaved.
Next == UserTypeShort \/ UserBlur \/ ChatHandlers \/ RefreshNext

Spec == Init /\ [][Next]_vars
SpecChat == Init /\ [][ChatNext]_vars
SpecRefresh == Init /\ [][RefreshNext]_vars

\* The transport reports the completion or the failure of every request:
\* each pending await is eventually resumed.
Transport ==
  /\ WF_vars(ChatFetchResolve \/ ChatFetchReject)
  /\ WF_vars(ChatJsonReject \/ \E data \in Bodies : ChatJsonResolve(data))
  /\ WF_vars(RefreshFetchResolve \/ RefreshFetchReject)
  /\ WF_vars(RefreshJsonReject \/ \E data \in Bodies : RefreshJsonResolve(data))

\* Timers run when due, and time passes while a timer is pending.
Clock == WF_vars(ToastTimer) /\ WF_vars(Tick)

SpecLive == Init /\ [][Next]_vars /\ Transport /\ Clock

SpecRefreshLive == Init /\ [][RefreshNext]_vars /\ Transport /\ Clock

\* ------------------------------------------------- vocabulary of the claims
IsBlank(s) == \A i \in 1..Len(s) : s[i] \in Whitespace

\* t is v without its leading and trailing whitespace.
IsTrimOf(t, v) ==
  /\ t /= <<>> => (t[1] \notin Whitespace /\ t[Len(t)] \notin Whitespace)
  /\ \E i \in 0..Len(v) : \E j \in i..Len(v) :
       /\ t = SubSeq(v, i + 1, j)
       /\ IsBlank(SubSeq(v, 1, i))
       /\ IsBlank(SubSeq(v, j + 1, Len(v)))

OpIndexes(os, name) == {i \in 1..Len(os) : os[i].op = name}
CountOps(os, name) == Cardinality(OpIndexes(os, name))
OpsWith(os, name, tag) == {i \in OpIndexes(os, name) : os[i].tag = tag}
Removals(os) ==
  Cardinality({i \in OpIndexes(os, "removeTypingIndicator") : os[i].tag = "removed"})

\* The values of event after a step of the click handler or the toast timer,
\* and after a step of the submit handler.
RefreshEvents ==
  {"click", "refreshFetchResolve", "refreshFetchReject", "refreshJsonReject",
   "refreshJsonResolve", "refreshJsonNull", "timer"}

ChatEvents ==
  {"submit", "chatFetchResolve", "chatFetchReject", "chatJsonReject",
   "chatJsonResolve", "chatJsonNull"}

IsPrefix(s, t) == Len(s) <= Len(t) /\ s = SubSeq(t, 1, Len(s))

Alternates(ms) ==
  \A i \in 1..Len(ms) : ms[i].sender = IF i % 2 = 1 THEN "user" ELSE "ai"

CountSender(ms, sender) == Cardinality({i \in 1..Len(ms) : ms[i].sender = sender})

ChatPending == chatFetch + chatJson
RefreshPending == refreshFetch + refreshJson
\* A step in which a submit handler, resp. a click handler, runs to its end.
ChatCompletes == chatFetch' + chatJson' < chatFetch + chatJson
RefreshCompletes == refreshFetch' + refreshJson' < refreshFetch + refreshJson

AppendsOne(sender, text) ==
  Messages(children') = Append(Messages(children), Element("", sender, text))

LastMessage(ch) == Messages(ch)[Len(Messages(ch))]

\* ------------------------------------------------------------------ C1
\* C1: in every reachable state, whatever the interleaving of submits, chat
\* responses and failures, refresh clicks and timer firings, the message
\* container holds at most one typing-indicator element.
C1_AtMostOneIndicator == Indicators(children) <= 1

C1_Witness ==
  /\ Indicators(children) = 1
  /\ Len(UserMessages(children)) = 2
  /\ refreshJson > 0
  /\ timers /= <<>>

\* ------------------------------------------------------------------ C2
\* C2: a showToast call made while an earlier toast is visible replaces the
\* text and restarts the dismissal timer: for the full timeout counted from
\* the latest call the toast is visible with that call's text, so the timer
\* of an earlier call does not hide it.
C2_VisibleForFullTimeout == sinceShow < ToastTimeout => toastShow

\* ------------------------------------------------------------------ C3
\* C3: every run of the submit handler that created a typing indicator
\* removes exactly one indicator element when it completes, on each outcome,
\* and once no call is pending no indicator remains.
C3_IndicatorRemovedOnce ==
  [][ChatCompletes =>
       /\ Indicators(children') = Indicators(children) - 1
       /\ Removals(ops') = 1
       /\ (chatFetch' + chatJson' = 0 => Indicators(children') = 0)]_vars

C3_Witness ==
  /\ event = "chatJsonNull"
  /\ CountOps(ops, "removeTypingIndicator") = 2
  /\ Indicators(children) = 0

\* ------------------------------------------------------------------ C4
\* C4: when a run of the submit handler for a non-empty input completes, by
\* any of its paths, the input field is enabled and has keyboard focus.
C4_EnabledAndFocused ==
  [][ChatCompletes => ~disabled' /\ focus' = "input"]_vars

C4_Witness ==
  /\ event = "chatFetchReject"
  /\ ~disabled
  /\ focus = "input"

\* ------------------------------------------------------------------ C5
\* C5: a submit event with an empty or whitespace-only input changes
\* nothing: no message, no request, no typing indicator, and the field's
\* enabled state and value stay as they were.
C5_BlankSubmitIsNoOp ==
  [][(event' = "submit" /\ IsBlank(value)) =>
       /\ UNCHANGED <<value, disabled, children, chatFetch, chatJson>>
       /\ ops' = <<>>]_vars

C5_Witness ==
  /\ event = "submit"
  /\ ops = <<>>
  /\ value /= <<>>
  /\ IsBlank(value)

\* ------------------------------------------------------------------ C6
\* C6: a submit event with a non-blank input appends exactly one user
\* message carrying the trimmed text, and does so before it issues its one
\* request, whose payload is that text, to the query endpoint.
C6_UserMessageBeforeRequest ==
  [][(event' = "submit" /\ ~IsBlank(value)) =>
       \E t \in Inputs :
         /\ IsTrimOf(t, value)
         /\ AppendsOne("user", t)
         /\ CountOps(ops', "addMessage") = 1
         /\ CountOps(ops', "fetch") = 1
         /\ \A i \in OpIndexes(ops', "addMessage") :
              \A j \in OpIndexes(ops', "fetch") :
                /\ i < j
                /\ ops'[i] = Op("addMessage", t, "user")
                /\ ops'[j] = Op("fetch", t, ChatUrl)]_vars

C6_Witness ==
  /\ event = "submit"
  /\ CountOps(ops, "fetch") = 1
  /\ Len(Messages(children)) = 1
  /\ LastMessage(children) = Element("", "user", <<"a", " ", "a">>)

\* ------------------------------------------------------------------ C7
\* C7: when response.json() yields a JSON object, the handler appends
\* exactly one ai message: the response field when present and non-empty,
\* the fixed fallback text when the field is missing or empty.
C7_ReplyOrFallback ==
  [][\A data \in Bodies :
       (data.kind = "object" /\ ChatJsonResolve(data)) =>
          /\ AppendsOne("ai", IF data.field.present /\ data.field.val /= <<>>
                               THEN data.field.val
                               ELSE <<"Sorry, I encountered an error. Please try again.">>)
          /\ CountOps(ops', "addMessage") = 1]_vars

C7_Witness ==
  /\ event = "chatJsonResolve"
  /\ Len(Messages(children)) = 4
  /\ Messages(children)[2] = Element("", "ai", <<"a">>)
  /\ Messages(children)[4] =
       Element("", "ai", <<"Sorry, I encountered an error. Please try again.">>)

C9_Original ==
  [][/\ RefreshCompletes => CountOps(ops', "showToast") = 1
     /\ \A data \in Bodies :
          (data.kind = "object" /\ RefreshJsonResolve(data)) =>
             toastText' = IF data.field.present THEN data.field.val
                          ELSE <<"Data refreshed!">>
     /\ event' \in {"refreshFetchReject", "refreshJsonReject"} =>
          toastText' = <<"Failed to refresh data.">>]_vars

\* C9 amended: every completion of the click handler shows exactly one
\* toast: the server's message when the response is a JSON object carrying
\* a non-empty one, "Data refreshed!" when the object carries none or an
\* empty one, "Failed to refresh data." when the request fails in transport
\* or parsing or the body is JSON null.
C9_ToastText ==
  [][/\ RefreshCompletes => CountOps(ops', "showToast") = 1 /\ toastShow'
     /\ \A data \in Bodies :
          RefreshJsonResolve(data) =>
             toastText' = IF data.kind = "null" THEN <<"Failed to refresh data.">>
                          ELSE IF data.field.present /\ data.field.val /= <<>>
                               THEN data.field.val
                               ELSE <<"Data refreshed!">>
     /\ event' \in {"refreshFetchReject", "refreshJsonReject"} =>
          toastText' = <<"Failed to refresh data.">>]_vars

C9_Witness ==
  /\ event = "refreshJsonResolve"
  /\ toastShow
  /\ toastText = <<"Data refreshed!">>
  /\ CountOps(ops, "showToast") = 1

\* ----------------------------------------------------------------- C10
\* C10: when a run of the click handler completes, on success or failure,
\* the refresh control is enabled and not spinning; while its request is
\* pending the control is disabled and spinning.
C10_RefreshControl ==
  [][/\ RefreshCompletes => ~refreshDisabled' /\ ~spinning'
     /\ refreshFetch' + refreshJson' > 0 => refreshDisabled' /\ spinning']_vars

C10_Witness ==
  /\ event = "refreshFetchReject"
  /\ ~refreshDisabled
  /\ ~spinning

\* ----------------------------------------------------------------- C11
\* C11: both handlers follow Idle -> Pending -> Idle: given that the
\* transport reports the end of every request, a control that was disabled
\* on entering Pending is eventually enabled again, and every step in which
\* a handler ends leaves its control enabled.
C11_PendingReturnsToIdle ==
  /\ disabled ~> ~disabled
  /\ refreshDisabled ~> ~refreshDisabled
  /\ [][/\ ChatCompletes => ~disabled'
        /\ RefreshCompletes => ~refreshDisabled']_vars

C11_Witness ==
  /\ event = "refreshJsonReject"
  /\ ~refreshDisabled
  /\ RefreshPending = 0
  /\ disabled
  /\ ChatPending = 1

\* ----------------------------------------------------------------- C12
\* C12: every toast is dismissed by its timer: a visible toast is eventually
\* hidden, once the timeout of the last showToast call has elapsed and its
\* callback has run the toast is not visible, and a hidden toast becomes
\* visible only by a showToast call.
C12_ToastAutoDismissed ==
  /\ toastShow ~> ~toastShow
  /\ [](timers = <<>> => ~toastShow)
  /\ [][/\ (event' = "timer" /\ timers' = <<>>) =>
             (~toastShow' /\ sinceShow' = ToastTimeout)
        /\ (~toastShow /\ toastShow') => CountOps(ops', "showToast") = 1]_vars

C12_Witness ==
  /\ event = "timer"
  /\ timers = <<>>
  /\ sinceShow = ToastTimeout
  /\ ~toastShow
  /\ toastText /= <<>>

\* ----------------------------------------------------------------- C13
\* C13: the statements a handler runs when it ends come in one order on
\* every path: in the submit handler the indicator removal, then the one ai
\* message, then the re-enabling of the field, then its focus; in the click
\* handler the one toast, then the re-enabling of the button, then the
\* removal of the spin.  No path leaves one out.
C13_SameOrderOnEveryPath ==
  [][/\ ChatCompletes =>
          LET rm == OpIndexes(ops', "removeTypingIndicator")
              am == OpIndexes(ops', "addMessage")
              en == OpsWith(ops', "disabled", "false")
              fo == OpIndexes(ops', "focus")
          IN /\ rm /= {}
             /\ Cardinality(am) = 1
             /\ Cardinality(en) = 1
             /\ Cardinality(fo) = 1
             /\ \A r \in rm : \A a \in am : \A e \in en : \A f \in fo :
                  r < a /\ a < e /\ e < f
     /\ RefreshCompletes =>
          LET st == OpIndexes(ops', "showToast")
              en == OpsWith(ops', "refreshDisabled", "false")
              sp == OpsWith(ops', "fa-spin", "remove")
          IN /\ Cardinality(st) = 1
             /\ Cardinality(en) = 1
             /\ Cardinality(sp) = 1
             /\ \A t \in st : \A e \in en : \A p \in sp : t < e /\ e < p]_vars

C13_Witness ==
  /\ event = "chatJsonReject"
  /\ Len(ops) = 5
  /\ ops[1].op = "removeTypingIndicator"
  /\ ops[2].op = "addMessage"
  /\ ops[5].op = "focus"
  /\ toastShow

\* ----------------------------------------------------------------- C14
\* C14: the two handlers are independent under every interleaving: no step
\* of the click handler or of the toast timer changes the message log, the
\* typing indicator or the field's value and enabled state, and no step of
\* the submit handler changes the button's enabled and spinning state or
\* the toast.
C14_HandlersIndependent ==
  [][/\ event' \in RefreshEvents =>
          UNCHANGED <<children, value, disabled, chatFetch, chatJson>>
     /\ event' \in ChatEvents =>
          UNCHANGED <<refreshDisabled, spinning, refreshFetch, refreshJson,
                      toastText, toastShow, timers>>]_vars

C14_Witness ==
  /\ event = "refreshFetchReject"
  /\ toastShow
  /\ disabled
  /\ ChatPending = 1
  /\ Indicators(children) = 1

\* ----------------------------------------------------------------- C15
\* C15: the message log is append-only: across every step the sequence of
\* messages, the typing indicator left out, is a prefix of the sequence
\* after the step, so no message is removed, reordered or changed, also
\* when the indicator is removed.
C15_LogAppendOnly ==
  [][IsPrefix(Messages(children), Messages(children'))]_vars

C15_Witness ==
  /\ event = "chatJsonNull"
  /\ Indicators(children) = 0
  /\ Len(Messages(children)) = 4
  /\ Messages(children)[1].sender = "user"

\* ----------------------------------------------------------------- C16
\* C16: every action is a single attempt: a submit with a non-blank input
\* issues exactly one request to the query endpoint, a click exactly one to
\* the refresh endpoint, and no other step, in particular no transport
\* failure and no soft failure, issues a request.
C16_SingleAttempt ==
  [][/\ (event' = "submit" /\ ~IsBlank(value)) =>
          /\ CountOps(ops', "fetch") = 1
          /\ OpsWith(ops', "fetch", ChatUrl) /= {}
          /\ chatFetch' = chatFetch + 1
     /\ event' = "click" =>
          /\ CountOps(ops', "fetch") = 1
          /\ OpsWith(ops', "fetch", RefreshUrl) /= {}
          /\ refreshFetch' = refreshFetch + 1
     /\ ~(event' = "submit" /\ ~IsBlank(value)) => chatFetch' <= chatFetch
     /\ event' /= "click" => refreshFetch' <= refreshFetch
     /\ event' \notin {"submit", "click"} => CountOps(ops', "fetch") = 0]_vars

C16_Witness ==
  /\ event = "chatJsonResolve"
  /\ CountOps(ops, "fetch") = 0
  /\ ChatPending = 0
  /\ LastMessage(children).text = <<"Sorry, I encountered an error. Please try again.">>
  /\ Len(timers) = 2

\* ----------------------------------------------------------------- C17
\* C17: at most one chat request is in flight at any time: while one is
\* pending the field is empty and disabled, the user being able to edit it
\* only while it is enabled, so a submit event that arrives while a request
\* is pending changes nothing.
C17_OneChatRequestInFlight ==
  [][/\ chatFetch' + chatJson' <= 1
     /\ chatFetch' + chatJson' > 0 => (value' = <<>> /\ disabled')
     /\ (event' = "submit" /\ ChatPending > 0) =>
          /\ UNCHANGED <<value, disabled, children, chatFetch, chatJson>>
          /\ ops' = <<>>]_vars

C17_Witness ==
  /\ event = "submit"
  /\ ops = <<>>
  /\ ChatPending = 1
  /\ chatJson = 1
  /\ disabled
  /\ value = <<>>

\* ----------------------------------------------------------------- C18
\* C18: in every state between two events the typing indicator is present
\* exactly when a chat request is pending, which is exactly when the field
\* is disabled.
C18_IndicatorIffPendingIffDisabled ==
  /\ (Indicators(children) >= 1) <=> (ChatPending > 0)
  /\ (ChatPending > 0) <=> disabled

C18_Witness ==
  /\ event = "timer"
  /\ Indicators(children) = 1
  /\ chatJson = 1
  /\ disabled

\* ----------------------------------------------------------------- C19
\* C19: in every reachable state the message log alternates user, ai, user,
\* ai, ... from a user message on, with as many ai messages as user
\* messages when no chat request is pending and one less while one is
\* pending.
C19_LogAlternates ==
  LET ms == Messages(children) IN
  /\ Alternates(ms)
  /\ ChatPending = 0 => CountSender(ms, "ai") = CountSender(ms, "user")
  /\ ChatPending > 0 => CountSender(ms, "ai") = CountSender(ms, "user") - 1

C19_Witness ==
  /\ ChatPending = 1
  /\ Len(Messages(children)) = 3
  /\ Messages(children)[2].text = <<"Unable to connect to the server.">>
  /\ Messages(children)[3].sender = "user"
====
